---- MODULE Spec2Model ----
(***************************************************************************)
(* Timer/phase state machine and pointer gesture mapping of the Pomodoro  *)
(* renderer (src/src/App.tsx), the dock notifications it forwards and the  *)
(* host that applies them (src/electron/main/index.ts), and the lock       *)
(* control of the renderer and host variants of src/unnamed.               *)
(*                                                                         *)
(* Execution model of the React component:                                 *)
(*  - the state of the component is the value of its useState cells and    *)
(*    refs after the last commit;                                          *)
(*  - an event handler or interval callback reads the values of the last   *)
(*    commit, and the updates it enqueues are rendered and committed as    *)
(*    one step;                                                            *)
(*  - the useEffect bodies of a commit caused by a user event run with     *)
(*    that commit (React flushes the passive effects of a discrete event   *)
(*    synchronously); those of a commit caused by the interval callback    *)
(*    or by an effect run later, as the step FlushEffects;                 *)
(*  - React flushes pending effects before it renders a new update, and    *)
(*    an effect sees the values of the render that scheduled it: when a    *)
(*    user event arrives before FlushEffects, the pending effects run with *)
(*    the values of the earlier commit, the handler's updates are          *)
(*    committed first, and the updates the effects enqueued are committed  *)
(*    next (ApplyQueued);                                                  *)
(*  - the interval period (1000 ms) is long against the delay of the       *)
(*    effect flush, so the interval callback fires only when no effect is  *)
(*    pending.                                                             *)
(***************************************************************************)
EXTENDS Integers, Sequences, FiniteSets, TLC

\* ---------------------------------------------------------------- bounds
\* pointer ids carried by pointer events in Spec: 1..MaxPointerId
MaxPointerId == 1
\* pointer ids carried by pointer events in SpecDial: 1..MaxDialPointerId
MaxDialPointerId == 2
\* SpecDial samples the pointer angles around every multiple of this step
DialAngleStep == 30
\* pointer angles (degrees, as returned by atan2) fed to the dial in Spec
MaxGestureAngle == 14
\* the countdown is explored for sessions of at most this many minutes
MaxRunMinutes == 2
\* well-formed dock notifications carry minutesLeft up to this many minutes
MaxDockMinutes == 2
\* lock calls the renderer can have in flight to the host
MaxLockCalls == 4

\* ------------------------------------------------------------- constants
SECONDS_IN_MINUTE == 60
MAX_MINUTES == 60
FocusDefaultMinutes == 25
BreakDefaultMinutes == 5

Phases == {"focus", "break"}
PointerIds == 1..MaxPointerId
NoPointer == 0
NoToast == "none"
NoUpdate == [pending |-> FALSE, phase |-> "focus", remaining |-> 0]

VARIABLES
    phase,          \* useState<Phase>
    durations,      \* useState<Record<Phase, number>>
    remaining,      \* useState(number), seconds
    running,        \* useState(boolean)
    toast,          \* useState<string | null>
    dragging,       \* useState(boolean)
    dragPointerId,  \* useRef<number | null>
    interval,       \* TRUE iff a window.setInterval handle is scheduled
    intervalHandles, \* number of window.setInterval handles not cleared
    effectsPending, \* TRUE iff the effects of the last commit have not run
    queued,         \* updates enqueued by an effect, not yet rendered
    lastOp,         \* history: the step taken last
    lastPointerId,  \* history: pointer id of the last pointer event
    lastAngle,      \* history: pointer angle of the last pointer event
    preRunning,     \* history: value of running before the last step
    preDragPointerId, \* history: value of dragPointerId before the last
                    \* timer or pointer step
    ticks,          \* history: interval callbacks since the timer was last
                    \* running at its full duration with no user event
                    \* since; -1 when there is no such run
    phaseAtExpiry,  \* history: phase whose countdown reached 0 and has not
                    \* been advanced yet, or "none"
    preStep,        \* history: <<durations, remaining, lastOp>> before the
                    \* last timer or pointer step; << >> when it is not
                    \* recorded
    visited,        \* history: the <<phase, running>> pairs the timer has
                    \* been in; {} when they are not recorded
    dockSent,       \* payload of the last window.pomodoro.updateDockIcon call
    lastDockKey,    \* host: let lastDockKey
    dockBadge,      \* host: text of the last app.dock.setBadge call
    dockIcon,       \* host: image of the last app.dock.setIcon call
    hasDock,        \* host: isMac && app.dock
    lastRaw,        \* history: the dock notification the host received last
    dockUpdated,    \* history: TRUE iff that notification reached setBadge
    dockRepeat,     \* history: TRUE iff that notification equals the one
                    \* received before it
    locked,         \* lock variant: useState(boolean)
    skipNextLockToast, \* lock variant: useRef(boolean)
    lockMounted,    \* lock variant: TRUE iff the effects of the mount have run
    lockApi,        \* TRUE iff window.pomodoro has getLockState,
                    \* setLockState and onPreventClose
    preventCloseSub, \* TRUE iff a callback is registered with onPreventClose
    hostCalls,      \* lock calls made by the renderer, not yet handled by
                    \* the host
    lockReplies,    \* results of getLockState on their way to the renderer
    isLocked,       \* host: let isLocked
    winOpen,        \* host: TRUE iff win is the main window (not null)
    winReady,       \* host: TRUE iff createWindow has run to its end for
                    \* the window last created
    winClosable,    \* host: the closable flag of the main window
    winAlwaysOnTop, \* host: the always-on-top flag of the main window
    preventCloseMsgs \* 'pomodoro:prevent-close' notifications on their way
                    \* to the renderer

timer == <<phase, durations, remaining, running>>
vars == <<phase, durations, remaining, running, toast, dragging,
          dragPointerId, interval, intervalHandles, effectsPending, queued,
          lastOp, lastPointerId, lastAngle, preRunning, preDragPointerId,
          ticks, phaseAtExpiry, visited, preStep, dockSent,
          lastDockKey, dockBadge, dockIcon, hasDock, lastRaw, dockUpdated,
          dockRepeat, locked, skipNextLockToast, lockMounted, lockApi,
          preventCloseSub, hostCalls, lockReplies, isLocked,
          winOpen, preventCloseMsgs, winReady, winClosable, winAlwaysOnTop>>

\* state of the host process
dockHost == <<lastDockKey, dockBadge, dockIcon, hasDock, lastRaw, dockUpdated,
              dockRepeat>>
\* state of the lock: the renderer's, the calls in flight and the host's
windowFlags == <<winReady, winClosable, winAlwaysOnTop>>
hostWindow == <<winOpen, preventCloseMsgs, windowFlags>>
lockVars == <<locked, skipNextLockToast, lockMounted, lockApi,
              preventCloseSub, hostCalls, lockReplies, isLocked, hostWindow>>
shell == <<dockHost, lockVars>>

\* ------------------------------------------------------- derived values
PHASE_META(p) == IF p = "focus" THEN FocusDefaultMinutes ELSE BreakDefaultMinutes

nextPhaseOf(p) == IF p = "focus" THEN "break" ELSE "focus"

totalSecondsOf(d, p) == d[p] * SECONDS_IN_MINUTE

totalSeconds == totalSecondsOf(durations, phase)

nextPhase == nextPhaseOf(phase)

\* Math.ceil of a / b for integers a >= 0, b > 0
CeilDiv(a, b) == (a + b - 1) \div b

Min(a, b) == IF a < b THEN a ELSE b
Max(a, b) == IF a > b THEN a ELSE b

totalMinutesOf(d, p) == Max(1, d[p])

\* variant: Math.floor in place of Math.ceil
minutesLeftFloor(d, p, rem) ==
    Max(0, Min(totalMinutesOf(d, p), rem \div SECONDS_IN_MINUTE))

minutesLeftOf(d, p, rem) ==
    Max(0, Min(totalMinutesOf(d, p), CeilDiv(rem, SECONDS_IN_MINUTE)))

\* Ratios sent to the dock are fractions of MAX_MINUTES * SECONDS_IN_MINUTE
\* seconds; the model keeps their numerator over that denominator.
RatioDen == MAX_MINUTES * SECONDS_IN_MINUTE

\* remainingRatio = max(0, min(1, remaining / (MAX_MINUTES * 60)))
remainingRatioOf(rem) == Max(0, Min(RatioDen, rem))

\* ------------------------------------------------------ gesture mapping
\* raw: Math.atan2(dx, -dy) * 180 / Math.PI, in (-180, 180]
angleDegreesOf(raw) == (raw + 360) % 360

\* variant: Math.floor in place of Math.round
FloorDiv6(a) == a \div 6

\* Math.round of a / 6 for an integer a >= 0 (halves round up)
RoundDiv6(a) == (a + 3) \div 6

\* variant: a result below 1 is taken for a full revolution
minutesOfAngleTopIsFull(raw) ==
    LET rounded == RoundDiv6(angleDegreesOf(raw))
        low == IF rounded < 1 THEN MAX_MINUTES ELSE rounded
    IN  IF low > MAX_MINUTES THEN MAX_MINUTES ELSE low

\* variant: the lower clamp is missing
minutesOfAngleNoFloor(raw) ==
    LET rounded == RoundDiv6(angleDegreesOf(raw))
    IN  IF rounded > MAX_MINUTES THEN MAX_MINUTES ELSE rounded

minutesOfAngle(raw) ==
    LET rounded == RoundDiv6(angleDegreesOf(raw))
        low == IF rounded < 1 THEN 1 ELSE rounded
    IN  IF low > MAX_MINUTES THEN MAX_MINUTES ELSE low

\* ------------------------------------------------------------- effects
\* variant: no interval is scheduled for the last second
tickEffectStopsEarly(run, rem) == ~(~run \/ rem <= 1)

\* variant: the interval is scheduled whether or not the timer is running
tickEffectIgnoresRunning(run, rem) == ~(rem <= 0)

\* tick effect: an interval is scheduled iff running and remaining > 0
tickEffectSchedules(run, rem) == ~(~run \/ rem <= 0)

\* variant: the tick effect has no cleanup
handlesAfterTickEffectNoCleanup(n, had, run, rem) ==
    n + (IF tickEffectSchedules(run, rem) THEN 1 ELSE 0)

\* a re-run of the tick effect on n scheduled handles: the cleanup of the
\* run before clears the interval that run had set, then the body sets one
\* or returns early
handlesAfterTickEffect(n, had, run, rem) ==
    (n - (IF had THEN 1 ELSE 0)) + (IF tickEffectSchedules(run, rem) THEN 1 ELSE 0)

\* variant: the advance effect always returns early
advanceEffectNever(run, rem) == FALSE

\* variant: the advance fires one second early
advanceEffectFiresEarly(run, rem) == ~(~run \/ rem > 1)

\* advance effect: body runs past its early return
advanceEffectFires(run, rem) == ~(~run \/ rem > 0)

\* ratio the TimerCircle of App.tsx draws its sector with: the
\* remainingRatio of the render, passed as a prop
sectorRatio == remainingRatioOf(remaining)

\* The renderer variant with the lock control (src/unnamed/part_000, lines
\* 208-597) has the state, handlers and effects of App.tsx and two ratios of
\* its own, kept here as fractions.
\* TimerCircle: totalSeconds <= 0 ? 0 : min(1, max(0, remaining / totalSeconds))
sectorRatioPerPhase(d, p, rem) ==
    IF totalSecondsOf(d, p) <= 0
    THEN [num |-> 0, den |-> 1]
    ELSE [num |-> Max(0, Min(totalSecondsOf(d, p), rem)),
          den |-> totalSecondsOf(d, p)]

\* dock effect: totalMinutes === 0 ? 0 : minutesLeft / totalMinutes
dockRatioPerPhase(d, p, rem) ==
    IF totalMinutesOf(d, p) = 0
    THEN [num |-> 0, den |-> 1]
    ELSE [num |-> minutesLeftOf(d, p, rem), den |-> totalMinutesOf(d, p)]

\* argument of window.pomodoro.updateDockIcon for a render
dockPayload(p, d, rem, run) ==
    [phase |-> p,
     minutesLeft |-> minutesLeftOf(d, p, rem),
     totalMinutes |-> totalMinutesOf(d, p),
     running |-> run,
     remainingRatio |-> remainingRatioOf(rem)]

\* variant: remainingRatio is missing from the dependency list
dockEffectDepsNoRatio(pl) ==
    <<pl.phase, pl.minutesLeft, pl.totalMinutes, pl.running>>

\* dependency list of the dock effect
dockEffectDeps(pl) ==
    <<pl.phase, pl.minutesLeft, pl.totalMinutes, pl.running, pl.remainingRatio>>

\* dock effect of a render: the payload is forwarded when a dependency
\* differs from the render whose payload was forwarded last
dockEffect(sent, pl) ==
    IF dockEffectDeps(pl) # dockEffectDeps(sent) THEN pl ELSE sent

\* variant: the duration of the expiring phase is reloaded
upcomingDurationSecondsOfCurrent(d, p) == d[p] * SECONDS_IN_MINUTE

upcomingDurationSeconds(d, p) == d[nextPhaseOf(p)] * SECONDS_IN_MINUTE

\* variant: setPhase is missing
advanceUpdateKeepsPhase(d, p) ==
    [pending |-> TRUE, phase |-> p,
     remaining |-> upcomingDurationSeconds(d, p)]

advanceUpdate(d, p) ==
    [pending |-> TRUE, phase |-> nextPhaseOf(p),
     remaining |-> upcomingDurationSeconds(d, p)]

\* variant: the floor is taken one second early
tickUpdaterEarlyFloor(prev) == IF prev <= 2 THEN 0 ELSE prev - 1

\* interval callback: setRemaining((prev) => (prev <= 1 ? 0 : prev - 1))
tickUpdater(prev) == IF prev <= 1 THEN 0 ELSE prev - 1

\* ---------------------------------------------------------------- init
\* key of no dock update: let lastDockKey = ''
NoDockKey == << >>
\* a dock that has not been given a badge or an icon
NoBadge == << >>
NoIcon == [phase |-> "none", sector |-> 0, minutesLabel |-> << >>,
           runState |-> "none", totalLabel |-> << >>]
\* no notification received
NoRaw == [shape |-> "none"]

InitHost ==
    /\ lastDockKey = NoDockKey
    /\ dockBadge = NoBadge
    /\ dockIcon = NoIcon
    /\ lastRaw = NoRaw
    /\ dockUpdated = FALSE
    /\ dockRepeat = FALSE
    /\ isLocked = TRUE
    /\ winOpen = TRUE
    /\ winReady = FALSE
    /\ winClosable = TRUE
    /\ winAlwaysOnTop = TRUE
    /\ preventCloseMsgs = 0
    /\ hostCalls = << >>
    /\ lockReplies = << >>

InitApp ==
    /\ phase = "focus"
    /\ durations = [p \in Phases |-> PHASE_META(p)]
    /\ remaining = PHASE_META("focus") * SECONDS_IN_MINUTE
    /\ running = FALSE
    /\ toast = NoToast
    /\ dragging = FALSE
    /\ dragPointerId = NoPointer
    /\ interval = FALSE
    /\ intervalHandles = 0
    /\ effectsPending = FALSE
    /\ queued = NoUpdate
    /\ lastOp = "init"
    /\ lastPointerId = NoPointer
    /\ lastAngle = 0
    /\ preRunning = FALSE
    /\ preDragPointerId = NoPointer
    /\ ticks = -1
    /\ phaseAtExpiry = "none"
    /\ dockSent = dockPayload(phase, durations, remaining, running)
    /\ locked = TRUE
    /\ skipNextLockToast = TRUE
    /\ lockMounted = FALSE
    /\ preventCloseSub = FALSE
    /\ InitHost

\* the platform: macOS with its dock, and the preload bridge in place
InitPlatform ==
    /\ hasDock = TRUE
    /\ lockApi = TRUE

Init ==
    /\ InitApp
    /\ visited = {}
    /\ preStep = << >>
    /\ InitPlatform

\* history variables, written by every step
History(op, id, raw) ==
    /\ lastOp' = op
    /\ lastPointerId' = id
    /\ lastAngle' = raw
    /\ preRunning' = running
    /\ preDragPointerId' = dragPointerId
    /\ ticks' = IF op = "tick"
                THEN (IF ticks >= 0 THEN ticks + 1 ELSE -1)
                ELSE IF op \in {"effects", "toastTimeout"}
                     THEN ticks
                     ELSE IF running' /\ remaining' = totalSecondsOf(durations', phase')
                          THEN 0
                          ELSE -1
    /\ phaseAtExpiry' = IF op = "tick" /\ remaining > 0 /\ remaining' = 0
                        THEN phase
                        ELSE IF op \in {"advance", "advanceQueued"}
                             THEN "none"
                             ELSE phaseAtExpiry
    /\ preStep' = IF preStep = << >>
                  THEN << >>
                  ELSE <<durations, remaining, lastOp>>
    /\ visited' = IF visited = {}
                  THEN {}
                  ELSE visited \cup {<<phase', running'>>}
    /\ UNCHANGED shell

\* useState cells: a handler that changes none of them causes no render
cells == <<phase, durations, remaining, running, toast, dragging>>

\* End of a user event handler. When a useState cell changed, React renders
\* and commits: the effects pending from the earlier commit run first, with
\* the values of that commit (the unprimed ones), then the effects of the
\* handler's own commit run with the new values.
HandlerCommit ==
    /\ IF cells' # cells
       THEN /\ queued' =
                  IF effectsPending /\ advanceEffectFires(running, remaining)
                  THEN advanceUpdate(durations, phase)
                  ELSE IF timer' # timer
                          /\ advanceEffectFires(running', remaining')
                       THEN advanceUpdate(durations', phase')
                       ELSE NoUpdate
            /\ interval' = tickEffectSchedules(running', remaining')
            /\ intervalHandles' =
                  handlesAfterTickEffect(
                      IF effectsPending
                      THEN handlesAfterTickEffect(intervalHandles, interval,
                                                  running, remaining)
                      ELSE intervalHandles,
                      IF effectsPending
                      THEN tickEffectSchedules(running, remaining)
                      ELSE interval,
                      running', remaining')
            /\ effectsPending' = FALSE
            /\ dockSent' =
                  dockEffect(IF effectsPending
                             THEN dockEffect(dockSent,
                                      dockPayload(phase, durations, remaining, running))
                             ELSE dockSent,
                             dockPayload(phase', durations', remaining', running'))
       ELSE UNCHANGED <<queued, interval, intervalHandles, effectsPending, dockSent>>

\* ------------------------------------------------------------ handlers
\* variant: the button only negates running
toggleRunningNoReload ==
    /\ queued = NoUpdate
    /\ running' = ~running
    /\ UNCHANGED <<phase, durations, remaining, toast, dragging, dragPointerId>>
    /\ History("toggleRunning", NoPointer, 0)
    /\ HandlerCommit

\* variant: a start reloads the full duration
toggleRunningRestarts ==
    /\ queued = NoUpdate
    /\ remaining' = IF remaining <= 0 \/ ~running THEN totalSeconds ELSE remaining
    /\ running' = ~running
    /\ UNCHANGED <<phase, durations, toast, dragging, dragPointerId>>
    /\ History("toggleRunning", NoPointer, 0)
    /\ HandlerCommit

toggleRunning ==
    /\ queued = NoUpdate
    /\ remaining' = IF remaining <= 0 THEN totalSeconds ELSE remaining
    /\ running' = ~running
    /\ UNCHANGED <<phase, durations, toast, dragging, dragPointerId>>
    /\ History("toggleRunning", NoPointer, 0)
    /\ HandlerCommit

\* variant: the default duration is reloaded, not the configured one
handleResetToDefault ==
    /\ queued = NoUpdate
    /\ running' = FALSE
    /\ remaining' = PHASE_META(phase) * SECONDS_IN_MINUTE
    /\ toast' = "reset"
    /\ UNCHANGED <<phase, durations, dragging, dragPointerId>>
    /\ History("handleReset", NoPointer, 0)
    /\ HandlerCommit

handleReset ==
    /\ queued = NoUpdate
    /\ running' = FALSE
    /\ remaining' = totalSeconds
    /\ toast' = "reset"
    /\ UNCHANGED <<phase, durations, dragging, dragPointerId>>
    /\ History("handleReset", NoPointer, 0)
    /\ HandlerCommit

\* variant: the timer is not paused
handleSkipKeepsRunning ==
    /\ queued = NoUpdate
    /\ phase' = nextPhase
    /\ remaining' = durations[nextPhase] * SECONDS_IN_MINUTE
    /\ UNCHANGED running
    /\ toast' = IF nextPhase = "focus" THEN "skipToFocus" ELSE "skipToBreak"
    /\ UNCHANGED <<durations, dragging, dragPointerId>>
    /\ History("handleSkip", NoPointer, 0)
    /\ HandlerCommit

\* variant: a skip puts the upcoming phase back to its default duration
handleSkipRestoresDuration ==
    /\ queued = NoUpdate
    /\ phase' = nextPhase
    /\ durations' = [durations EXCEPT ![nextPhase] = PHASE_META(nextPhase)]
    /\ remaining' = PHASE_META(nextPhase) * SECONDS_IN_MINUTE
    /\ running' = FALSE
    /\ toast' = IF nextPhase = "focus" THEN "skipToFocus" ELSE "skipToBreak"
    /\ UNCHANGED <<dragging, dragPointerId>>
    /\ History("handleSkip", NoPointer, 0)
    /\ HandlerCommit

handleSkip ==
    /\ queued = NoUpdate
    /\ phase' = nextPhase
    /\ remaining' = durations[nextPhase] * SECONDS_IN_MINUTE
    /\ running' = FALSE
    /\ toast' = IF nextPhase = "focus" THEN "skipToFocus" ELSE "skipToBreak"
    /\ UNCHANGED <<durations, dragging, dragPointerId>>
    /\ History("handleSkip", NoPointer, 0)
    /\ HandlerCommit

\* ------------------------------------------------------------ gesture
\* updateDurationFromPointer: TRUE iff the update was applied
updated == ~running

\* variant: the running guard is missing
updateDurationFromPointerUnguarded(raw, emitToast) ==
    LET minutes == minutesOfAngle(raw)
    IN  /\ durations' = IF durations[phase] = minutes
                         THEN durations
                         ELSE [durations EXCEPT ![phase] = minutes]
        /\ remaining' = minutes * SECONDS_IN_MINUTE
        /\ UNCHANGED toast

\* variant: the minutes are stored for the phase that is not active
updateDurationFromPointerOtherPhase(raw, emitToast) ==
    IF running
    THEN /\ toast' = IF emitToast THEN "pauseFirst" ELSE toast
         /\ UNCHANGED <<durations, remaining>>
    ELSE LET minutes == minutesOfAngle(raw)
         IN  /\ durations' = [durations EXCEPT ![nextPhase] = minutes]
             /\ remaining' = minutes * SECONDS_IN_MINUTE
             /\ UNCHANGED toast

\* variant: setRemaining is skipped when the minutes are the configured ones
updateDurationFromPointerKeepsProgress(raw, emitToast) ==
    IF running
    THEN /\ toast' = IF emitToast THEN "pauseFirst" ELSE toast
         /\ UNCHANGED <<durations, remaining>>
    ELSE LET minutes == minutesOfAngle(raw)
         IN  /\ durations' = IF durations[phase] = minutes
                              THEN durations
                              ELSE [durations EXCEPT ![phase] = minutes]
             /\ remaining' = IF durations[phase] = minutes
                              THEN remaining
                              ELSE minutes * SECONDS_IN_MINUTE
             /\ UNCHANGED toast

updateDurationFromPointer(raw, emitToast) ==
    IF running
    THEN /\ toast' = IF emitToast THEN "pauseFirst" ELSE toast
         /\ UNCHANGED <<durations, remaining>>
    ELSE LET minutes == minutesOfAngle(raw)
         IN  /\ durations' = IF durations[phase] = minutes
                              THEN durations
                              ELSE [durations EXCEPT ![phase] = minutes]
             /\ remaining' = minutes * SECONDS_IN_MINUTE
             /\ UNCHANGED toast

\* variant: a rejected pointer-down starts a drag session too
handlePointerDownAlwaysSession(id, raw) ==
    /\ queued = NoUpdate
    /\ updateDurationFromPointer(raw, TRUE)
    /\ dragPointerId' = id
    /\ dragging' = TRUE
    /\ UNCHANGED <<phase, running>>
    /\ History("handlePointerDown", id, raw)
    /\ HandlerCommit

\* variant: a pointer-down leaves an active drag session to its pointer
handlePointerDownKeepsSession(id, raw) ==
    /\ queued = NoUpdate
    /\ updateDurationFromPointer(raw, TRUE)
    /\ IF updated /\ dragPointerId = NoPointer
       THEN /\ dragPointerId' = id
            /\ dragging' = TRUE
       ELSE UNCHANGED <<dragPointerId, dragging>>
    /\ UNCHANGED <<phase, running>>
    /\ History("handlePointerDown", id, raw)
    /\ HandlerCommit

handlePointerDown(id, raw) ==
    /\ queued = NoUpdate
    /\ updateDurationFromPointer(raw, TRUE)
    /\ IF updated
       THEN /\ dragPointerId' = id
            /\ dragging' = TRUE
       ELSE UNCHANGED <<dragPointerId, dragging>>
    /\ UNCHANGED <<phase, running>>
    /\ History("handlePointerDown", id, raw)
    /\ HandlerCommit

\* variant: any pointer moves the dial while a drag session is active
handlePointerMoveAnyPointer(id, raw) ==
    /\ queued = NoUpdate
    /\ IF dragPointerId = NoPointer
       THEN UNCHANGED <<durations, remaining, toast>>
       ELSE updateDurationFromPointer(raw, FALSE)
    /\ UNCHANGED <<phase, running, dragPointerId, dragging>>
    /\ History("handlePointerMove", id, raw)
    /\ HandlerCommit

\* variant: a rejected pointer-move shows the notice too
handlePointerMoveEmitsToast(id, raw) ==
    /\ queued = NoUpdate
    /\ IF dragPointerId # id
       THEN UNCHANGED <<durations, remaining, toast>>
       ELSE updateDurationFromPointer(raw, TRUE)
    /\ UNCHANGED <<phase, running, dragPointerId, dragging>>
    /\ History("handlePointerMove", id, raw)
    /\ HandlerCommit

handlePointerMove(id, raw) ==
    /\ queued = NoUpdate
    /\ IF dragPointerId # id
       THEN UNCHANGED <<durations, remaining, toast>>
       ELSE updateDurationFromPointer(raw, FALSE)
    /\ UNCHANGED <<phase, running, dragPointerId, dragging>>
    /\ History("handlePointerMove", id, raw)
    /\ HandlerCommit

\* variant: the release clears the session pointer and leaves the flag
releasePointerKeepsDragging(id) ==
    /\ queued = NoUpdate
    /\ IF dragPointerId # id
       THEN UNCHANGED dragPointerId
       ELSE dragPointerId' = NoPointer
    /\ UNCHANGED <<phase, durations, remaining, running, toast, dragging>>
    /\ History("releasePointer", id, 0)
    /\ HandlerCommit

\* onPointerUp and onPointerCancel
releasePointer(id) ==
    /\ queued = NoUpdate
    /\ IF dragPointerId # id
       THEN UNCHANGED <<dragPointerId, dragging>>
       ELSE /\ dragPointerId' = NoPointer
            /\ dragging' = FALSE
    /\ UNCHANGED <<phase, durations, remaining, running, toast>>
    /\ History("releasePointer", id, 0)
    /\ HandlerCommit

\* ------------------------------------------------- timers and effects
\* interval callback of the tick effect
intervalCallback ==
    /\ interval
    /\ ~effectsPending
    /\ queued = NoUpdate
    /\ remaining' = tickUpdater(remaining)
    /\ effectsPending' = (remaining' # remaining)
    /\ UNCHANGED <<phase, durations, running, toast, dragging, dragPointerId,
                   interval, intervalHandles, queued, dockSent>>
    /\ History("tick", NoPointer, 0)

\* the interval callback, for the sessions short enough to be explored
Tick ==
    /\ durations[phase] <= MaxRunMinutes
    /\ intervalCallback

\* timeout callback of showToast
ToastTimeout ==
    /\ toast # NoToast
    /\ ~effectsPending
    /\ queued = NoUpdate
    /\ toast' = NoToast
    /\ UNCHANGED <<phase, durations, remaining, running, dragging,
                   dragPointerId, interval, intervalHandles, effectsPending, queued, dockSent>>
    /\ History("toastTimeout", NoPointer, 0)

\* the tick effect, the advance effect and the dock effect of the last commit
FlushEffects ==
    /\ effectsPending
    /\ queued = NoUpdate
    /\ interval' = tickEffectSchedules(running, remaining)
    /\ intervalHandles' =
          handlesAfterTickEffect(intervalHandles, interval, running, remaining)
    /\ dockSent' = dockEffect(dockSent,
                              dockPayload(phase, durations, remaining, running))
    /\ UNCHANGED <<durations, running, toast, dragging, dragPointerId, queued>>
    /\ IF advanceEffectFires(running, remaining)
       THEN /\ phase' = advanceUpdate(durations, phase).phase
            /\ remaining' = advanceUpdate(durations, phase).remaining
            /\ effectsPending' = TRUE
            /\ History("advance", NoPointer, 0)
       ELSE /\ UNCHANGED <<phase, remaining>>
            /\ effectsPending' = FALSE
            /\ History("effects", NoPointer, 0)

\* render of the setPhase / setRemaining calls of an advance effect that ran
\* ahead of a handler's commit
ApplyQueued ==
    /\ queued # NoUpdate
    /\ phase' = queued.phase
    /\ remaining' = queued.remaining
    /\ queued' = NoUpdate
    /\ effectsPending' = (<<phase', remaining'>> # <<phase, remaining>>)
    /\ UNCHANGED <<durations, running, toast, dragging, dragPointerId, interval, intervalHandles,
                   dockSent>>
    /\ History("advanceQueued", NoPointer, 0)

\* ---------------------------------------------------------------- next
\* pointer angles (atan2 result in degrees) fed to the dial
GestureAngles == {a \in 0..MaxGestureAngle : a % 7 = 0}

PointerEvent ==
    \E id \in PointerIds :
        \/ \E raw \in GestureAngles : handlePointerDown(id, raw)
        \/ \E raw \in GestureAngles : handlePointerMove(id, raw)
        \/ releasePointer(id)

Next ==
    \/ toggleRunning
    \/ handleReset
    \/ handleSkip
    \/ PointerEvent
    \/ Tick
    \/ ToastTimeout
    \/ FlushEffects
    \/ ApplyQueued

Spec == Init /\ [][Next]_vars

\* ------------------------------------------------------------ SpecDial
\* The dial alone: a paused timer in either phase, and pointer events at
\* angles sampled from the whole-degree angles atan2 can return.
AllAngles == -179..180
DialAngles == {a \in AllAngles : a % DialAngleStep \in {0, 3, DialAngleStep - 1}}
DialPointerIds == 1..MaxDialPointerId

InitDial ==
    /\ phase \in Phases
    /\ durations = [p \in Phases |-> PHASE_META(p)]
    /\ remaining = PHASE_META(phase) * SECONDS_IN_MINUTE
    /\ running = FALSE
    /\ toast = NoToast
    /\ dragging = FALSE
    /\ dragPointerId = NoPointer
    /\ interval = FALSE
    /\ intervalHandles = 0
    /\ effectsPending = FALSE
    /\ queued = NoUpdate
    /\ lastOp = "init"
    /\ lastPointerId = NoPointer
    /\ lastAngle = 0
    /\ preRunning = FALSE
    /\ preDragPointerId = NoPointer
    /\ ticks = -1
    /\ phaseAtExpiry = "none"
    /\ visited = {}
    /\ preStep = << >>
    /\ dockSent = dockPayload(phase, durations, remaining, running)
    /\ locked = TRUE
    /\ skipNextLockToast = TRUE
    /\ lockMounted = FALSE
    /\ preventCloseSub = FALSE
    /\ InitHost
    /\ InitPlatform

NextDial ==
    \E id \in DialPointerIds :
        \/ \E raw \in DialAngles : handlePointerDown(id, raw)
        \/ \E raw \in DialAngles : handlePointerMove(id, raw)
        \/ releasePointer(id)

SpecDial == InitDial /\ [][NextDial]_vars

\* ------------------------------------------------------------- SpecRun
\* The countdown of the default durations left to itself: one press of the
\* start button in the initial state, then no user input.
startPressed == lastOp = "init" /\ toggleRunning

NextRun ==
    \/ startPressed
    \/ intervalCallback
    \/ FlushEffects

SpecRun == Init /\ [][NextRun]_vars

\* The same countdown with its scheduling: a scheduled interval keeps firing
\* every second and React always runs the effects of a commit, so neither
\* step stays enabled forever without being taken.
SpecRunFair ==
    /\ SpecRun
    /\ WF_vars(intervalCallback)
    /\ WF_vars(FlushEffects)

\* ------------------------------------------------------------ SpecCore
\* The timer engine of the default durations under its buttons, with the
\* <<phase, running>> pairs it passes through recorded in visited.
InitCore ==
    /\ InitApp
    /\ visited = {<<phase, running>>}
    /\ preStep = << >>
    /\ InitPlatform

NextCore ==
    \/ toggleRunning
    \/ handleReset
    \/ handleSkip
    \/ intervalCallback
    \/ FlushEffects
    \/ ApplyQueued

SpecCore == InitCore /\ [][NextCore]_vars

\* ------------------------------------------------------------ dock host
\* A notification is the value passed to the handler of
\* 'pomodoro:update-dock-icon'. shape is "object" for a non-null object and
\* "other" for anything else; a numeric field is absent (undefined or null),
\* "nan" (a value Number() turns into NaN) or a number. minutesLeft and
\* totalMinutes are kept in half minutes, so that Math.round has something
\* to round; remainingRatio is a numerator over RatioDen.
Absent == [tag |-> "absent", v |-> 0]
NaNField == [tag |-> "nan", v |-> 0]
Num(v) == [tag |-> "num", v |-> v]

\* variant: Number(field), with no default for a missing field
NumberOrStrict(field, dflt) ==
    IF field.tag = "num" THEN [nan |-> FALSE, v |-> field.v]
    ELSE [nan |-> TRUE, v |-> 0]

\* Number(field ?? dflt)
NumberOr(field, dflt) ==
    IF field.tag = "absent" THEN [nan |-> FALSE, v |-> dflt]
    ELSE IF field.tag = "nan" THEN [nan |-> TRUE, v |-> 0]
    ELSE [nan |-> FALSE, v |-> field.v]

\* return value null of parseDockPayload
NoPayload == [ok |-> FALSE]

\* variant: a phase that is not 'break' is taken for 'focus'
parseDockPayloadAnyPhase(raw) ==
    IF raw.shape # "object" THEN NoPayload
    ELSE LET ph == IF raw.phase = "break" THEN "break" ELSE "focus"
             minutesLeft == NumberOr(raw.minutesLeft, 0)
             totalMinutes == NumberOr(raw.totalMinutes, 2)
             remainingRatio == NumberOr(raw.remainingRatio, 0)
         IN  IF minutesLeft.nan \/ totalMinutes.nan \/ remainingRatio.nan
             THEN NoPayload
             ELSE [ok |-> TRUE, phase |-> ph,
                   minutesLeft |-> minutesLeft.v,
                   totalMinutes |-> totalMinutes.v,
                   remainingRatio |-> remainingRatio.v,
                   running |-> (raw.running = "true")]

parseDockPayload(raw) ==
    IF raw.shape # "object" THEN NoPayload
    ELSE IF raw.phase \notin {"break", "focus"} THEN NoPayload
    ELSE LET minutesLeft == NumberOr(raw.minutesLeft, 0)
             totalMinutes == NumberOr(raw.totalMinutes, 2)
             remainingRatio == NumberOr(raw.remainingRatio, 0)
         IN  IF minutesLeft.nan \/ totalMinutes.nan \/ remainingRatio.nan
             THEN NoPayload
             ELSE [ok |-> TRUE, phase |-> raw.phase,
                   minutesLeft |-> minutesLeft.v,
                   totalMinutes |-> totalMinutes.v,
                   remainingRatio |-> remainingRatio.v,
                   running |-> (raw.running = "true")]

\* Math.round of a number of half minutes (halves round up)
RoundHalves(h) == (h + 1) \div 2

\* String(n).padStart(2, '0') for 0 <= n <= 99
DigitChar == <<"0", "1", "2", "3", "4", "5", "6", "7", "8", "9">>
padStart2(n) ==
    IF n < 10
    THEN <<"0", DigitChar[n + 1]>>
    ELSE <<DigitChar[(n \div 10) + 1], DigitChar[(n % 10) + 1]>>

\* updateDockIcon: const constrained
constrainedOf(payload) ==
    [phase |-> payload.phase,
     minutesLeft |-> Max(0, Min(99, RoundHalves(payload.minutesLeft))),
     totalMinutes |-> Max(1, Min(99, RoundHalves(payload.totalMinutes))),
     remainingRatio |-> Min(RatioDen, Max(0, payload.remainingRatio)),
     running |-> payload.running]

\* JSON.stringify(constrained): the values of the five fields in order
dockKeyOf(c) ==
    <<c.phase, c.minutesLeft, c.totalMinutes, c.remainingRatio, c.running>>

\* updateDockIcon: const badge
badgeOf(c) ==
    IF c.minutesLeft > 0 THEN padStart2(c.minutesLeft)
    ELSE IF c.running THEN <<"0", "0">>
    ELSE << >>

\* updateDockIcon of the host variant of src/unnamed/part_001: const badge
badgeOfLockHost(c) ==
    IF c.minutesLeft > 0 THEN padStart2(c.minutesLeft) ELSE << >>

\* describeDockSectorPath: the path is empty for a ratio of 0, the full
\* disc from 0.999 on, and a sector of the ratio otherwise
dockSectorOf(ratio) ==
    LET clamped == Max(0, Min(RatioDen, ratio))
    IN  IF clamped * 1000 >= 999 * RatioDen THEN RatioDen ELSE clamped

\* buildDockSvg: the parts of the image that depend on the payload
buildDockSvg(c) ==
    [phase |-> c.phase,
     sector |-> dockSectorOf(c.remainingRatio),
     minutesLabel |-> IF c.minutesLeft > 0 THEN padStart2(c.minutesLeft)
                      ELSE IF c.running THEN <<"0", "0">>
                      ELSE <<"-", "-">>,
     runState |-> IF c.running THEN "RUN" ELSE "PAUSE",
     totalLabel |-> padStart2(Max(1, c.totalMinutes))]

\* the notification the host receives for a payload of the renderer: the
\* same object, in the units notifications are kept in
rawOfPayload(pl) ==
    [shape |-> "object",
     phase |-> pl.phase,
     minutesLeft |-> Num(2 * pl.minutesLeft),
     totalMinutes |-> Num(2 * pl.totalMinutes),
     remainingRatio |-> Num(pl.remainingRatio),
     running |-> IF pl.running THEN "true" ELSE "false"]

\* the notification the host of index.ts receives from the renderer variant
\* that sends its ratio as progress: the host reads remainingRatio, which
\* that object does not have
rawOfProgressPayload(pl) ==
    [rawOfPayload(pl) EXCEPT !.remainingRatio = Absent]

\* variant: the key is not compared with the key of the last update
dockKeyAlwaysNew(key) == TRUE

\* updateDockIcon: the guard key === lastDockKey, negated
dockKeyIsNew(key) == key # lastDockKey

\* state of the renderer
renderer == <<phase, durations, remaining, running, toast, dragging,
              dragPointerId, interval, intervalHandles, effectsPending, queued,
              lastOp, lastPointerId, lastAngle, preRunning,
              preDragPointerId, ticks, phaseAtExpiry, visited, preStep,
              dockSent>>

\* ipcMain.handle('pomodoro:update-dock-icon'): parseDockPayload, then
\* updateDockIcon. nativeImage may yield an empty image, which is not set.
HostReceive(raw) ==
    LET parsed == parseDockPayload(raw)
        constrained == constrainedOf(parsed)
        key == dockKeyOf(constrained)
    IN  /\ lastRaw' = raw
        /\ dockRepeat' = (raw = lastRaw)
        /\ IF parsed.ok /\ hasDock /\ dockKeyIsNew(key)
           THEN /\ lastDockKey' = key
                /\ dockBadge' = badgeOf(constrained)
                /\ \E empty \in BOOLEAN :
                      dockIcon' = IF empty THEN dockIcon
                                  ELSE buildDockSvg(constrained)
                /\ dockUpdated' = TRUE
           ELSE /\ UNCHANGED <<lastDockKey, dockBadge, dockIcon>>
                /\ dockUpdated' = FALSE
        /\ UNCHANGED <<hasDock, renderer, lockVars>>

\* ------------------------------------------------------------- SpecDock
\* The host alone, fed dock notifications: the well-formed ones of a small
\* range, and one of them with each field in turn missing, not a number,
\* below or above its range.
WellFormedPayloads ==
    [shape : {"object"},
     phase : Phases,
     minutesLeft : {Num(h) : h \in 0..(2 * MaxDockMinutes)},
     totalMinutes : {Num(2 * MaxDockMinutes)},
     remainingRatio : {Num(RatioDen \div 2)},
     running : {"true", "false"}]

BasePayload ==
    [shape |-> "object", phase |-> "focus", minutesLeft |-> Num(2),
     totalMinutes |-> Num(2 * MaxDockMinutes),
     remainingRatio |-> Num(RatioDen \div 2), running |-> "true"]

OddFields == {Absent, NaNField, Num(-4), Num(2 * RatioDen)}

OddPayloads ==
    {[BasePayload EXCEPT !.shape = "other"],
     [BasePayload EXCEPT !.phase = "long-break"],
     [BasePayload EXCEPT !.phase = "absent"],
     [BasePayload EXCEPT !.running = "absent"]}
    \cup {[BasePayload EXCEPT !.minutesLeft = x] : x \in OddFields}
    \cup {[BasePayload EXCEPT !.totalMinutes = x] : x \in OddFields}
    \cup {[BasePayload EXCEPT !.remainingRatio = x] : x \in OddFields}

RawPayloads == WellFormedPayloads \cup OddPayloads

InitDock ==
    /\ InitApp
    /\ visited = {}
    /\ preStep = << >>
    /\ hasDock \in BOOLEAN
    /\ lockApi = TRUE

NextDock == \E raw \in RawPayloads : HostReceive(raw)

SpecDock == InitDock /\ [][NextDock]_vars

\* ----------------------------------------------------------------- lock
\* The lock control of the renderer variant of src/unnamed/part_000, lines
\* 208-597, and the lock handlers of the host of src/unnamed/part_001.
GetLockCall == [op |-> "getLockState", value |-> FALSE]
SetLockCall(v) == [op |-> "setLockState", value |-> v]

\* window.pomodoro?.f?.(...): the call is made iff the capability exists
optionalCall(calls, c) == IF lockApi THEN Append(calls, c) ELSE calls

\* the variables no lock step writes
timerSide == <<phase, durations, remaining, running, dragging, dragPointerId,
               interval, intervalHandles, effectsPending, queued, lastPointerId, lastAngle,
               preRunning, preDragPointerId, ticks, phaseAtExpiry, visited,
               preStep, dockSent>>

\* the effects of the mount: getLockState, setLockState(locked), whose toast
\* is skipped, and onPreventClose
MountLock ==
    /\ winOpen
    /\ ~lockMounted
    /\ lockMounted' = TRUE
    /\ hostCalls' = optionalCall(optionalCall(hostCalls, GetLockCall),
                                 SetLockCall(locked))
    /\ preventCloseSub' = lockApi
    /\ IF skipNextLockToast
       THEN skipNextLockToast' = FALSE /\ UNCHANGED toast
       ELSE UNCHANGED skipNextLockToast
            /\ toast' = IF locked THEN "lockOn" ELSE "lockOff"
    /\ lastOp' = "mountLock"
    /\ UNCHANGED <<locked, lockApi, lockReplies, isLocked, timerSide, dockHost,
                   hostWindow>>

\* handleLockToggle and the effect of the commit of locked
handleLockToggle ==
    /\ winOpen
    /\ lockMounted
    /\ ~effectsPending
    /\ queued = NoUpdate
    /\ Len(hostCalls) < MaxLockCalls
    /\ locked' = ~locked
    /\ hostCalls' = optionalCall(hostCalls, SetLockCall(locked'))
    /\ IF skipNextLockToast
       THEN skipNextLockToast' = FALSE /\ UNCHANGED toast
       ELSE UNCHANGED skipNextLockToast
            /\ toast' = IF locked' THEN "lockOn" ELSE "lockOff"
    /\ lastOp' = "handleLockToggle"
    /\ UNCHANGED <<lockMounted, lockApi, preventCloseSub, lockReplies,
                   isLocked, timerSide, dockHost, hostWindow>>

\* variant: applyLockState stores the flag and leaves the window alone
applyLockStateFlagOnly(v) ==
    /\ isLocked' = v
    /\ UNCHANGED <<winAlwaysOnTop, winClosable>>

\* host: applyLockState
applyLockState(v) ==
    /\ isLocked' = v
    /\ IF ~winOpen
       THEN UNCHANGED <<winAlwaysOnTop, winClosable>>
       ELSE /\ winAlwaysOnTop' = v
            /\ winClosable' = ~v

\* host: the handlers of 'pomodoro:get-lock-state' and
\* 'pomodoro:set-lock-state' (applyLockState), for the oldest call in flight
HostLockCall ==
    /\ hostCalls # << >>
    /\ hostCalls' = Tail(hostCalls)
    /\ IF Head(hostCalls).op = "getLockState"
       THEN /\ lockReplies' = Append(lockReplies, isLocked)
            /\ UNCHANGED <<isLocked, winAlwaysOnTop, winClosable>>
       ELSE /\ applyLockState(Head(hostCalls).value)
            /\ UNCHANGED lockReplies
    /\ lastOp' = "hostLockCall"
    /\ UNCHANGED <<locked, skipNextLockToast, lockMounted, lockApi,
                   preventCloseSub, toast, timerSide, dockHost,
                   winOpen, preventCloseMsgs, winReady>>

\* host: createWindow after its await: the page has loaded, the window
\* handlers are registered and applyLockState(isLocked) is called
CreateWindowLoaded ==
    /\ winOpen
    /\ ~winReady
    /\ winReady' = TRUE
    /\ applyLockState(isLocked)
    /\ lastOp' = "createWindowLoaded"
    /\ UNCHANGED <<locked, skipNextLockToast, lockMounted, lockApi,
                   preventCloseSub, hostCalls, lockReplies, toast, timerSide,
                   dockHost, winOpen, preventCloseMsgs>>

\* host: app.on('activate') with no window left: createWindow up to its
\* await. The new window has the flags of its construction, and a new
\* renderer starts in it; the lock calls of the renderer of the closed
\* window that the host has not handled yet are still handled, its replies
\* and notifications are lost. (The timer never leaves its initial state
\* where this step is taken.)
Activate ==
    /\ ~winOpen
    /\ Len(hostCalls) + 2 <= MaxLockCalls
    /\ winOpen' = TRUE
    /\ winReady' = FALSE
    /\ winClosable' = TRUE
    /\ winAlwaysOnTop' = TRUE
    /\ locked' = TRUE
    /\ skipNextLockToast' = TRUE
    /\ lockMounted' = FALSE
    /\ preventCloseSub' = FALSE
    /\ toast' = NoToast
    /\ lockReplies' = << >>
    /\ preventCloseMsgs' = 0
    /\ lastOp' = "activate"
    /\ UNCHANGED <<lockApi, hostCalls, isLocked, timerSide, dockHost>>

\* variant: the commit of a locked set by the reply sends no setLockState
LockReplyNoEffect ==
    /\ winOpen
    /\ lockReplies # << >>
    /\ ~effectsPending
    /\ queued = NoUpdate
    /\ Len(hostCalls) < MaxLockCalls
    /\ lockReplies' = Tail(lockReplies)
    /\ locked' = Head(lockReplies)
    /\ UNCHANGED hostCalls
    /\ skipNextLockToast' = (locked' = locked)
    /\ lastOp' = "lockReply"
    /\ UNCHANGED <<lockMounted, lockApi, preventCloseSub, isLocked, toast,
                   timerSide, dockHost, hostWindow>>

\* the then-callback of getLockState, and the effect of the commit when
\* setLocked changed locked
LockReply ==
    /\ winOpen
    /\ lockReplies # << >>
    /\ ~effectsPending
    /\ queued = NoUpdate
    /\ Len(hostCalls) < MaxLockCalls
    /\ lockReplies' = Tail(lockReplies)
    /\ locked' = Head(lockReplies)
    /\ IF locked' # locked
       THEN /\ hostCalls' = optionalCall(hostCalls, SetLockCall(locked'))
            /\ skipNextLockToast' = FALSE
       ELSE /\ UNCHANGED hostCalls
            /\ skipNextLockToast' = TRUE
    /\ lastOp' = "lockReply"
    /\ UNCHANGED <<lockMounted, lockApi, preventCloseSub, isLocked, toast,
                   timerSide, dockHost, hostWindow>>

\* variant: the close handler does not look at isLocked
CloseRequestUnguarded ==
    /\ winOpen
    /\ winReady
    /\ winOpen' = FALSE
    /\ UNCHANGED preventCloseMsgs
    /\ lastOp' = "closeRequest"
    /\ UNCHANGED <<locked, skipNextLockToast, lockMounted, lockApi,
                   preventCloseSub, hostCalls, lockReplies, isLocked, toast,
                   timerSide, dockHost, windowFlags>>

\* host: a close request for the main window, the handler of
\* win.on('close'), which createWindow registers after its await
CloseRequest ==
    /\ winOpen
    /\ winReady
    /\ IF isLocked
       THEN /\ preventCloseMsgs < MaxLockCalls
            /\ preventCloseMsgs' = preventCloseMsgs + 1
            /\ UNCHANGED winOpen
       ELSE /\ winOpen' = FALSE
            /\ UNCHANGED preventCloseMsgs
    /\ lastOp' = "closeRequest"
    /\ UNCHANGED <<locked, skipNextLockToast, lockMounted, lockApi,
                   preventCloseSub, hostCalls, lockReplies, isLocked, toast,
                   timerSide, dockHost, windowFlags>>

\* renderer: a 'pomodoro:prevent-close' notification arrives; the callback
\* registered with onPreventClose, if any, shows its toast
PreventCloseNotice ==
    /\ winOpen
    /\ preventCloseMsgs > 0
    /\ ~effectsPending
    /\ queued = NoUpdate
    /\ preventCloseMsgs' = preventCloseMsgs - 1
    /\ toast' = IF preventCloseSub THEN "cannotClose" ELSE toast
    /\ lastOp' = "preventCloseNotice"
    /\ UNCHANGED <<locked, skipNextLockToast, lockMounted, lockApi,
                   preventCloseSub, hostCalls, lockReplies, isLocked, winOpen,
                   timerSide, dockHost, windowFlags>>

\* ------------------------------------------------------------- SpecLock
\* The lock control with and without the host capabilities.
InitLock ==
    /\ InitApp
    /\ visited = {}
    /\ preStep = << >>
    /\ hasDock = TRUE
    /\ lockApi \in BOOLEAN

NextLock ==
    \/ MountLock
    \/ handleLockToggle
    \/ HostLockCall
    \/ LockReply
    \/ CloseRequest
    \/ PreventCloseNotice
    \/ CreateWindowLoaded
    \/ Activate
    \/ ToastTimeout

SpecLock == InitLock /\ [][NextLock]_vars

\* ----------------------------------------------------------- SpecSweep
\* The angle mapping alone: pointer-downs on a paused timer at every
\* whole-degree angle.
NextSweep ==
    \E id \in PointerIds : \E raw \in AllAngles : handlePointerDown(id, raw)

SpecSweep == InitDial /\ [][NextSweep]_vars

\* ----------------------------------------------------------- SpecClock
\* The time text of the dial: String(n) without padding, the variant of
\* formatTime that leaves the padding out, and formatTime itself.
formatTimeUnpadded(secondsLeft) ==
    LET minutes == secondsLeft \div SECONDS_IN_MINUTE
        seconds == secondsLeft % SECONDS_IN_MINUTE
        str(n) == IF n < 10 THEN <<DigitChar[n + 1]>> ELSE padStart2(n)
    IN  str(minutes) \o <<":">> \o str(seconds)

formatTime(secondsLeft) ==
    LET minutes == secondsLeft \div SECONDS_IN_MINUTE
        seconds == secondsLeft % SECONDS_IN_MINUTE
    IN  padStart2(minutes) \o <<":">> \o padStart2(seconds)

\* The countdown of every focus length the dial can set: one pointer-down in
\* the initial state, one press of the start button, then no user input.
ClockAngles == {a \in AllAngles : a % 6 = 3}

dialOnce ==
    /\ lastOp = "init"
    /\ \E id \in PointerIds : \E raw \in ClockAngles : handlePointerDown(id, raw)

startAfterDial == lastOp = "handlePointerDown" /\ toggleRunning

NextClock ==
    \/ dialOnce
    \/ startAfterDial
    \/ intervalCallback
    \/ FlushEffects

SpecClock == Init /\ [][NextClock]_vars

\* ----------------------------------------------------------- SpecPause
\* Dial gestures on a timer that has been run and paused, with the
\* durations, the remaining seconds and the step before each step recorded
\* in preStep.
InitPause ==
    /\ InitApp
    /\ visited = {}
    /\ preStep = <<durations, remaining, lastOp>>
    /\ InitPlatform

NextPause ==
    \/ toggleRunning
    \/ PointerEvent
    \/ Tick
    \/ FlushEffects
    \/ ApplyQueued

SpecPause == InitPause /\ [][NextPause]_vars

\* ------------------------------------------------------------ SpecDrag
\* Pointer events of several pointers interleaved with the buttons and the
\* countdown.
NextDrag ==
    \/ toggleRunning
    \/ handleReset
    \/ handleSkip
    \/ \E id \in DialPointerIds :
          \/ \E raw \in GestureAngles : handlePointerDown(id, raw)
          \/ \E raw \in GestureAngles : handlePointerMove(id, raw)
          \/ releasePointer(id)
    \/ Tick
    \/ FlushEffects
    \/ ApplyQueued

SpecDrag == Init /\ [][NextDrag]_vars

\* =============================================================== claims
pointerOps == {"handlePointerDown", "handlePointerMove"}

\* C1: in every reachable state remaining is an integer with
\* 0 <= remaining <= durations[phase] * 60.
C1_RemainingInRange ==
    /\ remaining \in Int
    /\ 0 <= remaining
    /\ remaining <= durations[phase] * SECONDS_IN_MINUTE

\* the countdown has reached the lower end of the range by a tick
C1_Witness ==
    /\ lastOp = "tick"
    /\ remaining = 0
    /\ running

\* C2: both phases always have a configured duration, an integer in
\* 1..60, whatever angle the pointer is at.
C2_DurationsInRange ==
    /\ DOMAIN durations = Phases
    /\ \A p \in Phases : durations[p] \in 1..MAX_MINUTES
    /\ \A raw \in AllAngles : minutesOfAngle(raw) \in 1..MAX_MINUTES

\* a gesture at the top of the dial (angle 0) has been applied
C2_Witness ==
    /\ lastOp \in pointerOps
    /\ lastAngle = 0
    /\ durations[phase] = 1
    /\ remaining = SECONDS_IN_MINUTE

\* C3: a pointer-down or pointer-move received while running leaves phase,
\* durations, remaining and running unchanged.
C3_GestureRejectedWhileRunning ==
    [][(running /\ lastOp' \in pointerOps) => timer' = timer]_vars

\* a pointer-down arrived while the timer was running; the notice is shown
C3_Witness ==
    /\ lastOp = "handlePointerDown"
    /\ preRunning
    /\ running
    /\ toast = "pauseFirst"

\* the gesture of the step is applied: the timer is paused and the event is
\* a pointer-down, or a pointer-move of the pointer of the drag session
gestureAccepted ==
    /\ ~running
    /\ \/ lastOp' = "handlePointerDown"
       \/ lastOp' = "handlePointerMove" /\ lastPointerId' = dragPointerId

\* C4: a gesture accepted while paused that maps to m minutes sets
\* durations[phase] to m and remaining to m * 60, and leaves phase and
\* running unchanged.
C4_GestureAccepted ==
    [][gestureAccepted =>
          /\ minutesOfAngle(lastAngle') \in 1..MAX_MINUTES
          /\ durations'[phase] = minutesOfAngle(lastAngle')
          /\ remaining' = minutesOfAngle(lastAngle') * SECONDS_IN_MINUTE
          /\ phase' = phase
          /\ running' = running]_vars

\* a pointer-move of the drag session changed the duration of a paused timer
C4_Witness ==
    /\ lastOp = "handlePointerMove"
    /\ lastPointerId = dragPointerId
    /\ ~running
    /\ durations[phase] = minutesOfAngle(lastAngle)
    /\ durations[phase] # PHASE_META(phase)
    /\ remaining = durations[phase] * SECONDS_IN_MINUTE

\* C5: from a running state at the full duration, exactly
\* durations[phase] * 60 consecutive ticks with no user input bring
\* remaining to exactly 0, and the next evaluation of the effects sets phase
\* to the other phase and remaining to its full duration, running staying
\* true.
C5_FullCountdownThenAdvance ==
    /\ [](ticks >= 0 => running /\ remaining = totalSeconds - ticks)
    /\ [][(ticks = totalSeconds /\ lastOp' \in {"effects", "advance"}) =>
             /\ lastOp' = "advance"
             /\ phase' = nextPhaseOf(phase)
             /\ remaining' = durations[phase'] * SECONDS_IN_MINUTE
             /\ running /\ running']_vars

\* the last of durations[phase] * 60 uninterrupted ticks has brought the
\* countdown to 0
C5_Witness ==
    /\ lastOp = "tick"
    /\ ticks = totalSeconds
    /\ remaining = 0
    /\ running

advanceOps == {"advance", "advanceQueued"}

\* C6: each expiry causes exactly one phase switch: the state running with
\* remaining = 0 is reached by a tick and has the advance pending, no tick
\* is applied before the advance, the advance fires only for an expiry that
\* has not been advanced yet, and it leaves the new phase at its full
\* duration.
C6_OneAdvancePerExpiry ==
    /\ []((running /\ remaining = 0) => phaseAtExpiry = phase)
    /\ [](phaseAtExpiry # "none" =>
             \/ effectsPending /\ running /\ remaining = 0
             \/ queued.pending /\ queued.phase = nextPhaseOf(phaseAtExpiry))
    /\ [][lastOp' = "tick" => (phaseAtExpiry = "none" /\ remaining > 0)]_vars
    /\ [][lastOp' \in advanceOps =>
             /\ phaseAtExpiry # "none"
             /\ phase' = nextPhaseOf(phaseAtExpiry)
             /\ remaining' = durations[phase'] * SECONDS_IN_MINUTE
             /\ remaining' > 0]_vars
    /\ [][(phaseAtExpiry # "none" /\ phase' # phase) =>
             (phase = phaseAtExpiry /\ lastOp' \in advanceOps \cup {"handleSkip"})]_vars

\* the advance has fired for an expiry and the new phase runs at its full
\* duration
C6_Witness ==
    /\ lastOp = "advance"
    /\ phaseAtExpiry = "none"
    /\ running
    /\ remaining = totalSeconds
    /\ effectsPending

\* C7 (as stated): toggleRunning invoked with remaining = 0 leaves phase
\* unchanged, sets remaining to durations[phase] * 60 and ends with
\* running = true, also when the advance for that expiry is still pending.
C7_ToggleAtZeroResumes ==
    [][(remaining = 0 /\ lastOp' = "toggleRunning") =>
          /\ phase' = phase
          /\ remaining' = durations[phase] * SECONDS_IN_MINUTE
          /\ running']_vars

\* C8: skip, from any reachable state, sets phase to the other phase,
\* remaining to the new phase's full duration and running to false, and
\* leaves durations unchanged.
C8_Skip ==
    [][lastOp' = "handleSkip" =>
          /\ phase' = nextPhaseOf(phase)
          /\ remaining' = durations[phase'] * SECONDS_IN_MINUTE
          /\ running' = FALSE
          /\ durations' = durations]_vars

\* skip has acted on a running timer
C8_Witness ==
    /\ lastOp = "handleSkip"
    /\ preRunning
    /\ ~running
    /\ remaining = totalSeconds

\* C9: reset, from any reachable state, sets running to false and
\* remaining to durations[phase] * 60 and leaves phase and both durations
\* unchanged.
C9_Reset ==
    [][lastOp' = "handleReset" =>
          /\ running' = FALSE
          /\ remaining' = durations[phase] * SECONDS_IN_MINUTE
          /\ phase' = phase
          /\ durations' = durations]_vars

\* reset has acted on a running timer whose duration was set by a gesture
C9_Witness ==
    /\ lastOp = "handleReset"
    /\ preRunning
    /\ ~running
    /\ durations[phase] # PHASE_META(phase)
    /\ remaining = totalSeconds

\* C10: once running is false no tick decrements remaining until running
\* is true again: no interval is left scheduled against a paused timer and
\* the interval callback never fires while running is false.
C10_NoTickWhilePaused ==
    /\ [](~running => ~interval)
    /\ [][lastOp' = "tick" => (running /\ running')]_vars
    /\ [][(~running /\ ~running') => remaining' >= remaining
                                      \/ lastOp' # "tick"]_vars

\* the timer was paused part-way through a countdown
C10_Witness ==
    /\ lastOp = "toggleRunning"
    /\ preRunning
    /\ ~running
    /\ ~interval
    /\ 0 < remaining
    /\ remaining < totalSeconds

\* C11: while a drag session is active for pointer id i, a pointer-move,
\* pointer-up or pointer-cancel carrying another id changes neither the timer
\* state nor the drag session.
C11_ForeignPointerIgnored ==
    [][(/\ dragPointerId # NoPointer
        /\ lastOp' \in {"handlePointerMove", "releasePointer"}
        /\ lastPointerId' # dragPointerId) =>
          /\ timer' = timer
          /\ dragPointerId' = dragPointerId
          /\ dragging' = dragging]_vars

\* a pointer-move of another pointer arrived during a drag session, at an
\* angle that maps to another duration than the one the session has set
C11_Witness ==
    /\ lastOp = "handlePointerMove"
    /\ dragPointerId # NoPointer
    /\ dragging
    /\ lastPointerId # dragPointerId
    /\ minutesOfAngle(lastAngle) # durations[phase]

\* C15: after every change of the timer state a dock notification is
\* forwarded: once the pending effects have run, the payload forwarded last
\* is the payload derived from the current phase, durations, remaining and
\* running.
C15_DockFollowsState ==
    ~effectsPending =>
        dockSent = [phase |-> phase,
                    minutesLeft |-> minutesLeftOf(durations, phase, remaining),
                    totalMinutes |-> totalMinutesOf(durations, phase),
                    running |-> running,
                    remainingRatio |-> remainingRatioOf(remaining)]

\* the effects of a tick inside a minute have run: only the ratio of the
\* payload differs from the payload of the second before
C15_Witness ==
    /\ lastOp = "effects"
    /\ ~effectsPending
    /\ running
    /\ remaining % SECONDS_IN_MINUTE \notin {0, SECONDS_IN_MINUTE - 1}
    /\ dockSent.remainingRatio = remaining
    /\ dockSent.minutesLeft = CeilDiv(remaining, SECONDS_IN_MINUTE)

\* equality of two fractions with positive denominators
SameRatio(x, y) == x.num * y.den = y.num * x.den

\* C14 (as stated): in every reachable state of a renderer variant, once
\* the effects have run, the ratio forwarded in the dock payload equals the
\* ratio the on-screen sector is drawn with.
C14_OneRatioConvention ==
    ~effectsPending =>
        /\ dockSent.remainingRatio = sectorRatio
        /\ SameRatio(dockRatioPerPhase(durations, phase, remaining),
                     sectorRatioPerPhase(durations, phase, remaining))

\* the pointer-down of the step is applied to a paused timer
pointerDownApplied == lastOp' = "handlePointerDown" /\ ~running

\* angle of the pointer of the step, clockwise from 12 o'clock, in [0, 360)
angleOfStep == IF lastAngle' < 0 THEN lastAngle' + 360 ELSE lastAngle'

\* C16: for every angle a in 0..359 the minutes of the gesture are
\* round(a / 6) clamped to 1..60: the r with 6r - 3 <= a < 6r + 3, raised to
\* 1 and lowered to 60; 180 gives 30 and the angles just above 354 give 59.
C16_AngleToMinutes ==
    [][pointerDownApplied =>
          /\ angleOfStep \in 0..359
          /\ \E r \in 0..60 :
                /\ 6 * r - 3 <= angleOfStep
                /\ angleOfStep < 6 * r + 3
                /\ durations'[phase] = (IF r < 1 THEN 1 ELSE r)
          /\ (angleOfStep = 180 => durations'[phase] = 30)
          /\ (angleOfStep \in 355..356 => durations'[phase] = 59)]_vars

\* a pointer-down just above 354 degrees has set 59 minutes
C16_Witness ==
    /\ lastOp = "handlePointerDown"
    /\ lastAngle = -5
    /\ durations[phase] = 59
    /\ remaining = 59 * SECONDS_IN_MINUTE

\* C17 (as stated): a pointer exactly at the top of the dial (angle 0) maps
\* to 60 minutes.
C17_TopIsSixty ==
    [][(pointerDownApplied /\ angleOfStep = 0) =>
          durations'[phase] = MAX_MINUTES]_vars

\* C17 (amended): a pointer exactly at the top of the dial (angle 0) maps to
\* 1 minute, the lower clamp; 60 minutes are set exactly by the angles from
\* 357 up to 359.
C17_TopIsOne ==
    [][pointerDownApplied =>
          /\ (angleOfStep = 0 =>
                 /\ durations'[phase] = 1
                 /\ remaining' = SECONDS_IN_MINUTE)
          /\ (durations'[phase] = MAX_MINUTES <=> angleOfStep \in 357..359)]_vars

\* a pointer-down exactly at the top of the dial has started a drag session
C17_Witness ==
    /\ lastOp = "handlePointerDown"
    /\ lastAngle = 0
    /\ dragging
    /\ dragPointerId = lastPointerId
    /\ durations[phase] = 1

\* C18: from the initial state (focus, 25:00, paused), toggleRunning and
\* 1500 ticks with no other input are followed by the advance to break with
\* remaining = 300 and running = true, and 300 further ticks by the advance
\* to focus with remaining = 1500 and running = true; no advance happens
\* after any other number of ticks, and after that number of ticks the
\* advance is the only step the timer can take.
C18_EndToEnd ==
    /\ [][lastOp = "init" =>
             /\ lastOp' = "toggleRunning"
             /\ <<phase', remaining', running', ticks'>> = <<"focus", 1500, TRUE, 0>>]_vars
    /\ [][lastOp' = "tick" => ticks' = ticks + 1]_vars
    /\ [][lastOp' = "advance" =>
             \/ /\ <<phase, ticks>> = <<"focus", 1500>>
                /\ <<phase', remaining', running', ticks'>> = <<"break", 300, TRUE, 0>>
             \/ /\ <<phase, ticks>> = <<"break", 300>>
                /\ <<phase', remaining', running', ticks'>> = <<"focus", 1500, TRUE, 0>>]_vars
    /\ []((\/ <<phase, ticks>> = <<"focus", 1500>>
           \/ <<phase, ticks>> = <<"break", 300>>) =>
             /\ remaining = 0
             /\ effectsPending
             /\ advanceEffectFires(running, remaining)
             /\ ~ENABLED intervalCallback)

\* the second advance: the 300 ticks of the break have brought the timer
\* back to a running focus session of 25 minutes
C18_Witness ==
    /\ lastOp = "advance"
    /\ phase = "focus"
    /\ remaining = 1500
    /\ running
    /\ ticks = 0
    /\ durations = [p \in Phases |-> PHASE_META(p)]

\* C20: no reachable state is terminal: a tick, an advance, toggleRunning,
\* reset or skip is enabled in every reachable state, and a running timer
\* always has a tick or an advance ahead of it. (That all four combinations
\* of phase and running are reachable from the initial state is the
\* witness.)
C20_NoTerminalState ==
    /\ \/ ENABLED intervalCallback
       \/ ENABLED FlushEffects
       \/ ENABLED ApplyQueued
       \/ ENABLED toggleRunning
       \/ ENABLED handleReset
       \/ ENABLED handleSkip
    /\ running =>
          \/ ENABLED intervalCallback
          \/ ENABLED FlushEffects
          \/ ENABLED ApplyQueued

\* one behaviour from the initial state has been in all four combinations
\* of phase and running
C20_Witness == visited = Phases \X BOOLEAN

\* C12: of two consecutive identical dock notifications the second is
\* dropped: it reaches neither setBadge nor setIcon and leaves the key of
\* the last update alone, so the two cause at most the one update of the
\* first; and a first well-formed notification on a host with a dock does
\* cause one.
C12_IdenticalPayloadDropped ==
    /\ [](dockRepeat => ~dockUpdated)
    /\ [][dockRepeat' =>
             UNCHANGED <<lastDockKey, dockBadge, dockIcon>>]_vars
    /\ [][(lastDockKey = NoDockKey /\ hasDock /\ lastRaw' \in WellFormedPayloads)
             => (dockUpdated' /\ lastDockKey' # NoDockKey)]_vars

\* a well-formed notification has been received twice in a row on a host
\* with a dock: the dock shows the update of the first
C12_Witness ==
    /\ dockRepeat
    /\ hasDock
    /\ lastRaw \in WellFormedPayloads
    /\ ~dockUpdated
    /\ lastDockKey # NoDockKey
    /\ lastDockKey[1] = lastRaw.phase
    /\ dockBadge # NoBadge

\* the notification is one the host must drop: not an object, a phase that
\* is neither 'focus' nor 'break', or a numeric field that is not a number
malformed(raw) ==
    \/ raw.shape # "object"
    \/ raw.phase \notin Phases
    \/ raw.minutesLeft.tag = "nan"
    \/ raw.totalMinutes.tag = "nan"
    \/ raw.remainingRatio.tag = "nan"

\* C13: a notification that is not an object, whose phase is neither
\* 'focus' nor 'break', or one of whose minutesLeft, totalMinutes and ratio
\* coerces to NaN is dropped whole: the dedup key, the badge and the icon
\* stay as they were.
C13_MalformedDropped ==
    [][malformed(lastRaw') =>
          /\ UNCHANGED <<lastDockKey, dockBadge, dockIcon>>
          /\ ~dockUpdated']_vars

\* a notification with an unknown phase arrived after an update for the
\* break phase, which the dock still shows
C13_Witness ==
    /\ lastRaw.shape = "object"
    /\ lastRaw.phase \notin Phases
    /\ ~dockUpdated
    /\ lastDockKey # NoDockKey
    /\ lastDockKey[1] = "break"
    /\ dockIcon.phase = "break"

\* no call has been made to the host and none of its lock state has changed
noHostCall ==
    /\ hostCalls = << >>
    /\ lockReplies = << >>
    /\ ~preventCloseSub
    /\ isLocked = TRUE

\* C19 (as stated): when getLockState, setLockState and onPreventClose are
\* absent, the renderer makes no host call and its lock state is the default
\* unlocked (locked = false) as long as the user has not used the lock
\* toggle.
C19_DefaultUnlocked ==
    ~lockApi =>
        /\ noHostCall
        /\ lastOp \in {"init", "mountLock"} => locked = FALSE

\* the payload is one the host may act on: whole minutes, minutesLeft in
\* 0..99, totalMinutes in 1..99 and a ratio in [0, 1]
inDockRange(c) ==
    /\ c.minutesLeft \in 0..99
    /\ c.totalMinutes \in 1..99
    /\ 0 <= c.remainingRatio
    /\ c.remainingRatio <= RatioDen

\* C21: the payload derived from every reachable state, and the payload
\* forwarded last, have totalMinutes = durations[phase] and minutesLeft =
\* min(totalMinutes, ceil(remaining / 60)), within 0..totalMinutes; and what
\* the host acts on, for the forwarded payload as for every notification it
\* accepts, has whole minutesLeft in 0..99, whole totalMinutes in 1..99 and
\* a ratio in [0, 1]; the forwarded payload passes the host unaltered.
C21_PayloadRanges ==
    /\ \A pl \in {dockSent, dockPayload(phase, durations, remaining, running)} :
          /\ pl.totalMinutes = durations[pl.phase]
          /\ pl.minutesLeft \in 0..pl.totalMinutes
          /\ inDockRange(constrainedOf(parseDockPayload(rawOfPayload(pl))))
          /\ dockKeyOf(constrainedOf(parseDockPayload(rawOfPayload(pl))))
               = <<pl.phase, pl.minutesLeft, pl.totalMinutes,
                   pl.remainingRatio, pl.running>>
    /\ LET m == dockPayload(phase, durations, remaining, running).minutesLeft
           c == CHOOSE k \in 0..MAX_MINUTES :
                    /\ k * SECONDS_IN_MINUTE >= remaining
                    /\ (k - 1) * SECONDS_IN_MINUTE < remaining
       IN  m = IF c < durations[phase] THEN c ELSE durations[phase]
    /\ \A raw \in RawPayloads :
          parseDockPayload(raw).ok =>
              inDockRange(constrainedOf(parseDockPayload(raw)))

\* the effects of a tick that ended a minute have run: the forwarded
\* payload shows one minute less than the configured duration
C21_Witness ==
    /\ lastOp = "effects"
    /\ ~effectsPending
    /\ running
    /\ remaining = (durations[phase] - 1) * SECONDS_IN_MINUTE
    /\ dockSent.totalMinutes = 2
    /\ dockSent.minutesLeft = 1

digitValue(ch) == CHOOSE v \in 0..9 : DigitChar[v + 1] = ch
C23_FormatTime ==
    /\ remaining \in 0..(MAX_MINUTES * SECONDS_IN_MINUTE)
    /\ LET t == formatTime(remaining)
       IN  /\ Len(t) = 5
           /\ t[3] = ":"
           /\ \A i \in {1, 2, 4, 5} : \E v \in 0..9 : DigitChar[v + 1] = t[i]
           /\ LET mm == 10 * digitValue(t[1]) + digitValue(t[2])
                  ss == 10 * digitValue(t[4]) + digitValue(t[5])
              IN  /\ ss < SECONDS_IN_MINUTE
                  /\ mm * SECONDS_IN_MINUTE + ss = remaining

\* nine minutes and five seconds are left on a running timer: both parts of
\* the text are padded
C23_Witness ==
    /\ lastOp = "tick"
    /\ running
    /\ remaining = 545
    /\ formatTime(remaining) = <<"0", "9", ":", "0", "5">>

\* C24: a pointer-down of pointer j accepted while the drag session of
\* another pointer i is active is handled like any other (the handler is
\* defined for it) and makes j the session pointer; from then on the moves,
\* ups and cancels of pointers other than the session pointer are ignored,
\* and only an up or cancel of the session pointer ends the session.
C24_SecondPointerTakesOver ==
    /\ [](queued = NoUpdate =>
             \A id \in DialPointerIds : \A raw \in DialAngles :
                 ENABLED handlePointerDown(id, raw))
    /\ [][(/\ lastOp' = "handlePointerDown"
           /\ ~running
           /\ dragPointerId # NoPointer
           /\ lastPointerId' # dragPointerId) =>
             (dragPointerId' = lastPointerId' /\ dragging')]_vars
    /\ [][(/\ lastOp' \in {"handlePointerMove", "releasePointer"}
           /\ lastPointerId' # dragPointerId) =>
             UNCHANGED <<timer, toast, dragPointerId, dragging>>]_vars
    /\ [][(dragPointerId # NoPointer /\ dragPointerId' # dragPointerId) =>
             \/ lastOp' = "handlePointerDown"
             \/ /\ lastOp' = "releasePointer"
                /\ lastPointerId' = dragPointerId
                /\ dragPointerId' = NoPointer]_vars

\* pointer 2 went down while pointer 1 held the drag session, and holds it now
C24_Witness ==
    /\ lastOp = "handlePointerDown"
    /\ preDragPointerId = 1
    /\ lastPointerId = 2
    /\ dragPointerId = 2
    /\ dragging

\* C25: a pointer-move never raises a notice, whether it is applied, rejected
\* because the timer runs, or of a pointer that holds no session; the
\* 'timer must be paused' notice is raised by a pointer-down rejected because
\* the timer runs, by every such pointer-down, and by nothing else.
C25_NoticeOnlyOnPointerDown ==
    /\ [][lastOp' = "handlePointerMove" => toast' = toast]_vars
    /\ [][lastOp' = "handlePointerDown" =>
             toast' = IF running THEN "pauseFirst" ELSE toast]_vars
    /\ [][(toast' = "pauseFirst" /\ toast # "pauseFirst") =>
             (lastOp' = "handlePointerDown" /\ running)]_vars

\* the session pointer moved while the timer was running and no notice is up
C25_Witness ==
    /\ lastOp = "handlePointerMove"
    /\ running
    /\ dragPointerId # NoPointer
    /\ lastPointerId = dragPointerId
    /\ toast = NoToast

\* C26: an accepted gesture (a pointer-down, or a move of the session
\* pointer, on a paused timer) always leaves remaining at the full duration
\* of the active phase, durations[phase] * 60, with the mapped minutes as
\* that duration; this includes the gesture whose minutes equal the
\* configured duration on a timer paused part-way, whose progress is lost.
C26_GestureReloads ==
    /\ [][gestureAccepted =>
             remaining' = durations'[phase'] * SECONDS_IN_MINUTE]_vars
    /\ [][(gestureAccepted /\ minutesOfAngle(lastAngle') = durations[phase]) =>
             /\ durations' = durations
             /\ remaining' = durations[phase] * SECONDS_IN_MINUTE]_vars

\* a two-minute focus paused with 61 seconds left; a pointer-down at two
\* minutes left the durations alone and put remaining back to 120
C26_Witness ==
    /\ lastOp = "handlePointerDown"
    /\ ~running
    /\ minutesOfAngle(lastAngle) = 2
    /\ preStep[1] = durations
    /\ preStep[2] = 61
    /\ durations[phase] = 2
    /\ remaining = 2 * SECONDS_IN_MINUTE

\* C27: toggleRunning with remaining > 0 flips running and leaves phase,
\* durations and remaining as they were; a second toggle straight after the
\* first, with no tick between, brings back running, durations and remaining
\* of before the first (and phase, which neither changed).
C27_ToggleFlipsOnly ==
    /\ [][(lastOp' = "toggleRunning" /\ remaining > 0) =>
             /\ running' = ~running
             /\ UNCHANGED <<phase, durations, remaining>>]_vars
    /\ [][(/\ lastOp = "toggleRunning"
           /\ lastOp' = "toggleRunning"
           /\ preStep[2] > 0) =>
             /\ running' = preRunning
             /\ durations' = preStep[1]
             /\ remaining' = preStep[2]
             /\ phase' = phase]_vars

\* a timer running with 61 seconds left was paused and started again at once
C27_Witness ==
    /\ lastOp = "toggleRunning"
    /\ preStep[3] = "toggleRunning"
    /\ ~preRunning
    /\ running
    /\ preStep[2] = 61
    /\ remaining = 61

\* C28: durations changes only by an accepted gesture, and then only in the
\* entry of the active phase; the tick, the advance, toggle, reset and skip
\* (and the effect and toast steps) leave both durations as they were; the
\* duration of the phase that is not active is never modified.
C28_DurationsFrame ==
    /\ [][durations' # durations =>
             /\ gestureAccepted
             /\ durations' = [durations EXCEPT ![phase] = minutesOfAngle(lastAngle')]]_vars
    /\ [][lastOp' \in {"tick", "advance", "advanceQueued", "toggleRunning",
                       "handleReset", "handleSkip", "effects", "toastTimeout",
                       "releasePointer"} =>
             durations' = durations]_vars
    /\ [][durations'[nextPhaseOf(phase)] = durations[nextPhaseOf(phase)]]_vars

\* the focus duration was dialled to 2 minutes; the skip to the break left it
\* and the default break duration as they were
C28_Witness ==
    /\ lastOp = "handleSkip"
    /\ phase = "break"
    /\ durations["focus"] = 2
    /\ durations["break"] = BreakDefaultMinutes
    /\ remaining = BreakDefaultMinutes * SECONDS_IN_MINUTE

\* C29: a paused timer never shows zero: in no reachable state is running
\* false with remaining = 0, and neither the payload the renderer forwarded
\* last nor the one of the current state has minutesLeft = 0 with running
\* false.
C29_PausedNeverZero ==
    /\ ~(~running /\ remaining = 0)
    /\ \A pl \in {dockSent, dockPayload(phase, durations, remaining, running)} :
          ~(pl.minutesLeft = 0 /\ ~pl.running)

\* the button was pressed on a running timer that had just reached zero:
\* the timer is paused at the full duration, the advance is still to come
C29_Witness ==
    /\ lastOp = "toggleRunning"
    /\ preRunning
    /\ ~running
    /\ queued # NoUpdate
    /\ remaining = durations[phase] * SECONDS_IN_MINUTE
    /\ dockSent.minutesLeft = durations[phase]
    /\ ~dockSent.running

\* C30: a pointer-down rejected because the timer runs establishes no drag
\* session: dragPointerId and dragging stay as they were (null and false
\* when no session was active); a session begins only by a pointer-down on
\* a paused timer, so the moves of the rejected pointer change nothing, also
\* when the timer is paused before the pointer is released.
C30_RejectedDownNoSession ==
    /\ [][(lastOp' = "handlePointerDown" /\ running) =>
             UNCHANGED <<dragPointerId, dragging, timer>>]_vars
    /\ [][(dragPointerId = NoPointer /\ dragPointerId' # NoPointer) =>
             (lastOp' = "handlePointerDown" /\ ~running)]_vars
    /\ [][(lastOp' = "handlePointerMove" /\ dragPointerId = NoPointer) =>
             UNCHANGED <<timer, toast, dragPointerId, dragging>>]_vars

\* the notice of a rejected pointer-down is up, the timer was then paused
\* with 61 seconds left, and a move of the pointer has changed nothing
C30_Witness ==
    /\ lastOp = "handlePointerMove"
    /\ preStep[3] = "toggleRunning"
    /\ toast = "pauseFirst"
    /\ ~running
    /\ dragPointerId = NoPointer
    /\ preDragPointerId = NoPointer
    /\ ~dragging
    /\ preStep[2] = 61
    /\ remaining = 61

\* C31: in every reachable state the dragging flag is true exactly when a
\* drag session pointer is recorded, under any interleaving of the pointer
\* events of several pointers with the buttons and the countdown.
C31_DraggingIffSession == dragging <=> dragPointerId # NoPointer

\* pointer 2 held the session on a timer that was then started; its release
\* ended the session while the timer runs
C31_Witness ==
    /\ lastOp = "releasePointer"
    /\ lastPointerId = 2
    /\ preDragPointerId = 2
    /\ dragPointerId = NoPointer
    /\ ~dragging
    /\ running
    /\ remaining < durations[phase] * SECONDS_IN_MINUTE

\* C32: at most one one-second interval is scheduled at any time, and once
\* the pending effects have run one is scheduled exactly when running is
\* true and remaining > 0.
C32_OneInterval ==
    /\ intervalHandles \in {0, 1}
    /\ interval <=> intervalHandles = 1
    /\ ~effectsPending => (intervalHandles = 1 <=> (running /\ remaining > 0))

\* three ticks into a countdown the effects have run again and one interval
\* is scheduled
C32_Witness ==
    /\ lastOp = "effects"
    /\ ticks = 3
    /\ ~effectsPending
    /\ running
    /\ remaining > 0
    /\ intervalHandles = 1

\* C33: once the timer runs and no user input arrives, under fair delivery
\* of the ticks running stays true, the phase is focus again and again and
\* break again and again, and every change of phase goes to the other phase
\* and is made by the advance of a running timer.
C33_PhasesAlternateForever ==
    /\ [](running => [](running))
    /\ [](running => <>(phase = "focus"))
    /\ [](running => <>(phase = "break"))
    /\ [][phase' # phase =>
             /\ phase' = nextPhaseOf(phase)
             /\ lastOp' = "advance"
             /\ running /\ running']_vars

\* the left-alone timer has gone through a focus and a break and the advance
\* has put it back to a full focus countdown
C33_Witness ==
    /\ lastOp = "advance"
    /\ running
    /\ phase = "focus"
    /\ remaining = FocusDefaultMinutes * SECONDS_IN_MINUTE

\* C34: whatever the interleaving of the initial getLockState request, the
\* setLockState calls and the user's lock toggles, once the renderer has made
\* its initial request and no call and no reply is in flight the host's
\* isLocked equals the renderer's locked.
C34_LockInSync ==
    (lockApi /\ lockMounted /\ hostCalls = << >> /\ lockReplies = << >>) =>
        isLocked = locked

\* the user unlocked before the reply of getLockState arrived; the reply
\* locked again, and after the last call was handled both sides are locked
C34_Witness ==
    /\ lastOp = "hostLockCall"
    /\ lockApi
    /\ lockMounted
    /\ hostCalls = << >>
    /\ lockReplies = << >>
    /\ toast = "lockOff"
    /\ locked
    /\ isLocked

\* C35: whenever the main window exists and createWindow has run to its
\* end, the window's closable flag equals not isLocked and its always-on-top
\* flag equals isLocked, whether the set-lock-state calls arrive before the
\* window is created, while it loads or afterwards.
C35_WindowFlagsFollowLock ==
    (winOpen /\ winReady) =>
        (winClosable = ~isLocked /\ winAlwaysOnTop = isLocked)

\* the renderer mounted and the user unlocked while the window was loading;
\* the host handled the call before the end of createWindow, which then
\* applied the unlocked state
C35_Witness ==
    /\ lastOp = "createWindowLoaded"
    /\ winOpen
    /\ winReady
    /\ ~isLocked
    /\ lockMounted
    /\ winClosable
    /\ ~winAlwaysOnTop

\* C36 (as stated): for every payload the host acts on, the badge text and
\* the minutes label drawn in the icon are the same string, in the host of
\* src/electron/main/index.ts and in the host variant of src/unnamed/part_001.
C36_OneZeroPolicy ==
    parseDockPayload(lastRaw).ok =>
        LET c == constrainedOf(parseDockPayload(lastRaw))
        IN  /\ badgeOf(c) = buildDockSvg(c).minutesLabel
            /\ badgeOfLockHost(c) = buildDockSvg(c).minutesLabel

\* C37: a dock notification that is an object with a valid phase, in which
\* minutesLeft, totalMinutes or the ratio is absent and no field is NaN, is
\* accepted, the missing field taking 0, 1 minute and 0; so the payload of a
\* renderer that sends its ratio under another field name has ratio 0, and
\* an empty sector, at the host.
C37_MissingFieldDefaults ==
    /\ (/\ lastRaw.shape = "object"
        /\ lastRaw.phase \in Phases
        /\ NaNField \notin {lastRaw.minutesLeft, lastRaw.totalMinutes,
                            lastRaw.remainingRatio}) =>
          LET p == parseDockPayload(lastRaw)
              c == constrainedOf(p)
          IN  /\ p.ok
              /\ lastRaw.minutesLeft = Absent =>
                    (p.minutesLeft = 0 /\ c.minutesLeft = 0)
              /\ lastRaw.totalMinutes = Absent =>
                    (p.totalMinutes = 2 /\ c.totalMinutes = 1)
              /\ lastRaw.remainingRatio = Absent =>
                    /\ p.remainingRatio = 0
                    /\ c.remainingRatio = 0
                    /\ buildDockSvg(c).sector = 0
              /\ hasDock => lastDockKey = dockKeyOf(c)
    /\ LET p == parseDockPayload(rawOfProgressPayload(dockSent))
       IN  /\ p.ok
           /\ constrainedOf(p).remainingRatio = 0
           /\ constrainedOf(p).minutesLeft = dockSent.minutesLeft

\* the notification without a ratio was accepted: the badge shows its minute
\* and the key holds ratio 0
C37_Witness ==
    /\ lastRaw = [BasePayload EXCEPT !.remainingRatio = Absent]
    /\ dockUpdated
    /\ dockBadge = <<"0", "1">>
    /\ lastDockKey = <<"focus", 1, MaxDockMinutes, 0, TRUE>>
    /\ dockSent.remainingRatio > 0

====
